---- MODULE Spec2Model ----
(***************************************************************************)
(* State-machine model of the document question-answering service:         *)
(*   - app/agent.py : run_agent, search_knowledge_base,                    *)
(*                    clear_session_memory, SESSION_MEMORY                 *)
(*   - app/rag.py   : upload_to_blob, process_and_index_document,          *)
(*                    delete_any_existing_documents, update_blob_status    *)
(*   - app/main.py  : the HTTP handlers and how they are scheduled         *)
(*                                                                         *)
(* Python lists are objects: SESSION_MEMORY maps a session id to a         *)
(* reference, and run_agent's local `history` is a second reference to the *)
(* same object until the sliding window builds a new list.  The model      *)
(* keeps the objects in `heap`.                                            *)
(*                                                                         *)
(* The handlers of main.py declared `async def` run on the single event    *)
(* loop of the process and contain no await around run_agent, so one of    *)
(* them runs to completion before the next starts.  The ingestion          *)
(* pipeline is a synchronous function handed to BackgroundTasks, which     *)
(* runs it in the thread pool: its steps interleave with everything.       *)
(***************************************************************************)
EXTENDS Integers, Sequences, FiniteSets, TLC

\* ------------------------------------------------------------ bounds
MaxAsks == 2
MaxLimit == 2
MaxToolCalls == 2
MaxObjs == 4
MaxUploads == 2
MaxChunks == 2
MaxKeyChunks == 11

\* ------------------------------------------------------------ values
None == "None"
NoRef == 0
Objs == 1..MaxObjs
Reqs == 1..MaxAsks
Sessions == {"s1", "s2"}
Docs == {"policy.pdf", "handbook.pdf"}
Queries == {"q1"}
Answers == {"a1"}
LimitValues == 0..MaxLimit
\* what a caller may send as target_file: nothing, the empty string, an
\* indexed document
TargetFiles == {None, ""} \cup Docs
\* what the model may write into the arguments of its tool call beside the
\* query
ProposedFilters == {None, "handbook.pdf"}
ToolNames == {"search_knowledge_base", "other_tool"}
Runs == 1..MaxUploads
ChunkTexts == {"x", "y"}
\* the text of a document, given as the pieces the chunker cuts it into
Texts == UNION {[1..k -> ChunkTexts] : k \in 0..MaxChunks}

VARIABLES
  MAX_HISTORY_LIMIT,  \* agent.py:18, read from the environment at import
  SESSION_MEMORY,     \* session id -> reference to its list, NoRef if absent
  heap,               \* list objects: reference -> sequence of messages
  pc,                 \* position of each /ask request in run_agent
  session_id,         \* run_agent's arguments and locals, per request
  target_file,
  history,
  tool_calls,
  tc_i,
  final_sources,
  answer_text,
  lastResponse,       \* what run_agent returned to the request that started
                      \*      last: request, answer, source
  index,              \* the search index: a set of documents with unique id
  gatewayCalls,       \* log: the calls search_knowledge_base received in the
                      \*      turn that started last
  llmCalls,           \* log: the capabilities offered to the model in each
                      \*      call of the turn that started last
  sessionLog,         \* log: per session, every message appended to its
                      \*      transcript since it was created, with the
                      \*      request that appended it
  before,             \* log: the stored transcript when the turn started
  appended,           \* log: the messages the turn has appended so far
  cleared,            \* log: the session's transcript was removed by a reset
  resetRequests,      \* DELETE /session requests the event loop has received
                      \*      and not yet run, with a log: the request came
                      \*      while a turn on the session was in progress
  blobs,              \* blob storage: filename -> the blob, its metadata, tags
  rpc,                \* position of each background ingestion task
  filename,           \* process_and_index_document's argument and locals
  markdown_text,
  page_count,
  chunks,
  search_documents,
  keys_to_delete,
  overlapped,         \* log: the task ran while another task of the same
                      \*      document was running
  runLog              \* log: per task, the text it extracted and, taken when
                      \*      it returned, the document's index entries and
                      \*      status

agentVars == <<MAX_HISTORY_LIMIT, SESSION_MEMORY, heap, pc, session_id,
               target_file, history, tool_calls, tc_i, final_sources,
               answer_text, lastResponse, gatewayCalls, llmCalls, sessionLog,
               before, appended, cleared, resetRequests>>

ingestVars == <<blobs, rpc, filename, markdown_text, page_count, chunks,
                search_documents, keys_to_delete, overlapped, runLog>>

vars == <<agentVars, ingestVars, index>>

\* ------------------------------------------------------------ messages
SYSTEM_PROMPT == "SYSTEM_PROMPT"

NoSources == <<>>

\* one entry of a transcript.  The content of a tool message is the JSON text
\* of the search result (agent.py:158); the transcript keeps it as one token,
\* the result itself is in gatewayCalls.
Message(role, content, call_id, calls) ==
  [role |-> role, content |-> content, tool_call_id |-> call_id,
   tool_calls |-> calls]

SystemMessage == Message("system", SYSTEM_PROMPT, 0, <<>>)

UserMessage(q) == Message("user", q, 0, <<>>)

AssistantMessage(text) == Message("assistant", text, 0, <<>>)

AssistantToolRequest(calls) == Message("assistant", None, 0, calls)

ToolMessage(call_id) == Message("tool", "json.dumps(sources)", call_id, <<>>)

\* ------------------------------------------------------------ Python lists
Max(a, b) == IF a >= b THEN a ELSE b

\* h[-n:] for n >= 0.  In Python -0 is 0, so h[-0:] is h[0:]: the whole list.
LastSlice(h, n) ==
  IF n = 0 THEN h ELSE SubSeq(h, Max(1, Len(h) - n + 1), Len(h))

Referenced(sm, hist) ==
  ({sm[s] : s \in Sessions} \cup {hist[r] : r \in Reqs}) \ {NoRef}

\* a list no variable refers to any more is gone
Collect(h, sm, hist) ==
  [o \in Objs |-> IF o \in Referenced(sm, hist) THEN h[o] ELSE <<>>]

HasFreeObj == \E o \in Objs : heap[o] = <<>>

\* one list for every session that starts
SharedObj == CHOOSE o \in Objs : \A o2 \in Objs : o2 >= o

\* agent.py:120-124, the list literal is a list of its own
NewObj == CHOOSE o \in Objs : heap[o] = <<>> /\ \A o2 \in Objs : o2 < o => heap[o2] # <<>>

\* ------------------------------------------------------------ search index
FileUrl(doc_name) == <<"blob", doc_name>>

\* base64.urlsafe_b64encode(...).decode(): the standard encoding, one text
\* for each byte string and back; kept as the text it encodes, marked
urlsafe_b64encode(text) == <<"b64", text>>

AutoIncrementKey(doc_name, i) ==
  urlsafe_b64encode(doc_name \o "_" \o ToString(i + Cardinality(index)))

PositionKey(doc_name, i) == urlsafe_b64encode(ToString(i))

\* rag.py:167, the key encodes the formatted text f"{filename}_{i}"
DocumentKey(doc_name, i) ==
  urlsafe_b64encode(doc_name \o "_" \o ToString(i))

Embedding(text) == <<"vec", text>>

\* rag.py:166-173, one index document per chunk, i counted from 0
SearchDocument(doc_name, i, text) ==
  [id |-> DocumentKey(doc_name, i),
   content |-> text,
   text_vector |-> Embedding(text),
   chunk_index |-> i + 1,
   source_url |-> FileUrl(doc_name),
   source_document |-> doc_name]

BuildSearchDocuments(doc_name, texts) ==
  {SearchDocument(doc_name, i - 1, texts[i]) : i \in 1..Len(texts)}

\* ------------------------------------------------------------ Retrieval Gateway
SearchCount == 5

\* agent.py:53, the OData filter is built only for a truthy filename_filter
HasFilter(filename_filter) == filename_filter \notin {None, ""}

UnfilteredMatches(filename_filter) == index

Matches(filename_filter) ==
  IF HasFilter(filename_filter)
  THEN {d \in index : d.source_document = filename_filter}
  ELSE index

Min(a, b) == IF a <= b THEN a ELSE b

InjectiveSeqs(S, n) ==
  {q \in UNION {[1..k -> S] : k \in 0..Min(n, Cardinality(S))} :
     \A i, j \in 1..Len(q) : i # j => q[i] # q[j]}

\* what the service may answer: at most `top` of the matching documents, in
\* the rank order the service chose
SearchResults(filename_filter) ==
  InjectiveSeqs(Matches(filename_filter), SearchCount)

\* agent.py:58-66
RECURSIVE GroupHits(_, _)
GroupHits(sources, hits) ==
  IF hits = <<>> THEN sources
  ELSE LET doc == Head(hits)
           doc_name == doc.source_document
           cur == IF doc_name \in DOMAIN sources
                  THEN sources[doc_name]
                  ELSE [url |-> doc.source_url, context |-> <<>>]
           upd == [cur EXCEPT !.context = Append(cur.context, doc.content)]
       IN GroupHits([n \in DOMAIN sources \cup {doc_name} |->
                       IF n = doc_name THEN upd ELSE sources[n]],
                    Tail(hits))

search_with_placeholders(hits) ==
  GroupHits([d \in {e.source_document : e \in index} |->
               [url |-> FileUrl(d), context |-> <<>>]],
            hits)

search_knowledge_base(hits) == GroupHits(NoSources, hits)

\* dict.update: the entry of the argument replaces the entry of the same key
DictUpdate(d, e) ==
  [k \in DOMAIN d \cup DOMAIN e |-> IF k \in DOMAIN e THEN e[k] ELSE d[k]]

\* ------------------------------------------------------------ language model
\* agent.py:72-90, the one capability offered with the first call
tools == <<"search_knowledge_base">>

\* agent.py:162-165, the second call passes no tools
NoTools == <<>>

\* openai_client.chat.completions.create(..., tools=offered)
ModelCall(offered) == llmCalls' = Append(llmCalls, offered)

\* a tool call as the model writes it: a function name and JSON arguments.
\* The declared schema (agent.py:72-90) has only `query`; nothing stops the
\* model from adding a filename_filter of its own.
ToolCallShapes ==
  [name : {"search_knowledge_base"}, query : Queries,
   filename_filter : ProposedFilters]
    \cup [name : ToolNames \ {"search_knowledge_base"}, query : Queries,
          filename_filter : {None}]

ToolCallLists ==
  UNION {[1..k -> ToolCallShapes] : k \in 1..MaxToolCalls}

\* the identifiers the service gives the calls of one response
WithIds(r, calls) ==
  [i \in 1..Len(calls) |->
     [id |-> (r - 1) * MaxToolCalls + i,
      name |-> calls[i].name,
      query |-> calls[i].query,
      filename_filter |-> calls[i].filename_filter]]

\* ------------------------------------------------------------ scheduling
InHandler(r) == pc[r] \in {"llm1", "tools", "llm2", "window"}

AlwaysIdle == TRUE

\* main.py:76-77, 89-90, 40-41: the handlers are coroutines of one event loop
\* and do not await while they work, so a handler starts only when no other
\* is between its first and its last line
LoopIdle == \A r \in Reqs : ~InHandler(r)

\* ------------------------------------------------------------ run_agent
ModelChosenScope(r, tool_call) ==
  IF tool_call.filename_filter # None
  THEN tool_call.filename_filter
  ELSE target_file[r]

\* agent.py:148, filename_filter=target_file
GatewayScope(r, tool_call) == target_file[r]

Logged(r, msg) == [req |-> r, msg |-> msg]

\* list.append through the reference, with the logs kept beside it
AppendMessage(r, msg) ==
  /\ heap' = [heap EXCEPT ![history[r]] = Append(@, msg)]
  /\ sessionLog' = [sessionLog EXCEPT
                      ![session_id[r]] = Append(@, Logged(r, msg))]
  /\ appended' = [appended EXCEPT ![r] = Append(@, msg)]

\* the frame of request r is gone: its reference to the list with it
Return(r, sm, h, state) ==
  /\ pc' = [pc EXCEPT ![r] = state]
  /\ history' = [history EXCEPT ![r] = NoRef]
  /\ heap' = Collect(h, sm, [history EXCEPT ![r] = NoRef])
  /\ SESSION_MEMORY' = sm
  /\ session_id' = [session_id EXCEPT ![r] = None]
  /\ target_file' = [target_file EXCEPT ![r] = None]
  /\ tool_calls' = [tool_calls EXCEPT ![r] = <<>>]
  /\ tc_i' = [tc_i EXCEPT ![r] = 0]
  /\ final_sources' = [final_sources EXCEPT ![r] = NoSources]
  /\ answer_text' = [answer_text EXCEPT ![r] = None]
  /\ before' = [before EXCEPT ![r] = <<>>]
  /\ appended' = [appended EXCEPT ![r] = <<>>]

\* the exception leaves run_agent and the handler (main.py:82-86 catches
\* nothing)
Raise(r) ==
  /\ Return(r, SESSION_MEMORY, heap, "failed")
  /\ UNCHANGED <<MAX_HISTORY_LIMIT, resetRequests,
                 cleared,
                 lastResponse, gatewayCalls, sessionLog,
                 index, ingestVars>>

\* no DELETE request received: none waiting, none answered
NoRequest == [waiting |-> FALSE, inTurn |-> FALSE, response |-> None]

NoResponse ==
  [req |-> 0, session |-> None, answer |-> None, source |-> NoSources]

\* agent.py:117-124
AskStart(r, s, q, tf) ==
  /\ pc[r] = "new"
  /\ \A r2 \in Reqs : r2 < r => pc[r2] # "new"
  /\ LoopIdle
  /\ SESSION_MEMORY[s] = NoRef => HasFreeObj
  /\ LET fresh == SESSION_MEMORY[s] = NoRef
         ref == IF fresh THEN NewObj ELSE SESSION_MEMORY[s]
         stored == IF fresh THEN <<SystemMessage>> ELSE heap[ref]
         msg == UserMessage(q)
     IN /\ SESSION_MEMORY' = [SESSION_MEMORY EXCEPT ![s] = ref]
        /\ heap' = [heap EXCEPT ![ref] = Append(stored, msg)]
        /\ history' = [history EXCEPT ![r] = ref]
        /\ before' = [before EXCEPT ![r] = IF fresh THEN <<>> ELSE heap[ref]]
        /\ appended' = [appended EXCEPT ![r] = <<msg>>]
        /\ sessionLog' = [sessionLog EXCEPT
                            ![s] = Append(IF fresh THEN <<>> ELSE @,
                                          Logged(r, msg))]
  /\ session_id' = [session_id EXCEPT ![r] = s]
  /\ target_file' = [target_file EXCEPT ![r] = tf]
  /\ final_sources' = [final_sources EXCEPT ![r] = NoSources]
  /\ gatewayCalls' = {}
  /\ llmCalls' = <<>>
  /\ lastResponse' = NoResponse
  /\ pc' = [pc EXCEPT ![r] = "llm1"]
  /\ UNCHANGED <<MAX_HISTORY_LIMIT, resetRequests,
                 cleared,
                 tool_calls, tc_i, answer_text, index,
                 ingestVars>>

\* agent.py:127-132 raises
FirstCallFails(r) ==
  /\ pc[r] = "llm1"
  /\ ModelCall(tools)
  /\ Raise(r)

\* agent.py:127-141, the response asks for tools
FirstCallRequestsTools(r, calls) ==
  /\ pc[r] = "llm1"
  /\ ModelCall(tools)
  /\ AppendMessage(r, AssistantToolRequest(WithIds(r, calls)))
  /\ tool_calls' = [tool_calls EXCEPT ![r] = WithIds(r, calls)]
  /\ tc_i' = [tc_i EXCEPT ![r] = 1]
  /\ pc' = [pc EXCEPT ![r] = "tools"]
  /\ UNCHANGED <<MAX_HISTORY_LIMIT, resetRequests,
                 cleared,
                 SESSION_MEMORY, session_id, target_file,
                 history, final_sources, answer_text, lastResponse,
                 gatewayCalls, before, index, ingestVars>>

FirstCallAnswersThenAsksAgain(r, text) ==
  /\ pc[r] = "llm1"
  /\ ModelCall(tools)
  /\ AppendMessage(r, AssistantMessage(text))
  /\ answer_text' = [answer_text EXCEPT ![r] = text]
  /\ pc' = [pc EXCEPT ![r] = "llm2"]
  /\ UNCHANGED <<MAX_HISTORY_LIMIT, resetRequests,
                 cleared,
                 SESSION_MEMORY, session_id, target_file,
                 history, tool_calls, tc_i, final_sources, lastResponse,
                 gatewayCalls, before, index, ingestVars>>

\* agent.py:127-138, 169-172, the response has no tool call
FirstCallAnswers(r, text) ==
  /\ pc[r] = "llm1"
  /\ ModelCall(tools)
  /\ AppendMessage(r, AssistantMessage(text))
  /\ answer_text' = [answer_text EXCEPT ![r] = text]
  /\ pc' = [pc EXCEPT ![r] = "window"]
  /\ UNCHANGED <<MAX_HISTORY_LIMIT, resetRequests,
                 cleared,
                 SESSION_MEMORY, session_id, target_file,
                 history, tool_calls, tc_i, final_sources, lastResponse,
                 gatewayCalls, before, index, ingestVars>>

\* agent.py:143, the for loop moves on; after the last call, agent.py:162
AfterToolCall(r) ==
  /\ tc_i' = [tc_i EXCEPT ![r] = @ + 1]
  /\ pc' = [pc EXCEPT ![r] = IF tc_i[r] = Len(tool_calls[r])
                             THEN "llm2" ELSE "tools"]

\* agent.py:143-144, a call of another name is passed over
ToolCallSkipped(r) ==
  /\ pc[r] = "tools"
  /\ tool_calls[r][tc_i[r]].name # "search_knowledge_base"
  /\ AfterToolCall(r)
  /\ UNCHANGED <<MAX_HISTORY_LIMIT, resetRequests,
                 cleared,
                 SESSION_MEMORY, heap, session_id,
                 target_file, history, tool_calls, final_sources,
                 answer_text, lastResponse, gatewayCalls, llmCalls,
                 sessionLog, before, appended, index, ingestVars>>

\* agent.py:145-159
ToolCallSearches(r) ==
  /\ pc[r] = "tools"
  /\ tool_calls[r][tc_i[r]].name = "search_knowledge_base"
  /\ LET tool_call == tool_calls[r][tc_i[r]]
         scope == GatewayScope(r, tool_call)
     IN \E hits \in SearchResults(scope) :
          LET sources == search_knowledge_base(hits)
          IN /\ gatewayCalls' = gatewayCalls \cup
                  {[req |-> r, call |-> tool_call.id,
                    query |-> tool_call.query,
                    caller_scope |-> target_file[r],
                    proposed |-> tool_call.filename_filter,
                    filename_filter |-> scope,
                    hits |-> hits, sources |-> sources]}
             /\ final_sources' = [final_sources EXCEPT
                                    ![r] = DictUpdate(@, sources)]
             /\ AppendMessage(r, ToolMessage(tool_call.id))
  /\ AfterToolCall(r)
  /\ UNCHANGED <<MAX_HISTORY_LIMIT, resetRequests,
                 cleared,
                 SESSION_MEMORY, session_id, target_file,
                 history, tool_calls, answer_text, lastResponse, llmCalls,
                 before, index, ingestVars>>

\* agent.py:48-56 raises inside agent.py:148
SearchFails(r) ==
  /\ pc[r] = "tools"
  /\ tool_calls[r][tc_i[r]].name = "search_knowledge_base"
  /\ Raise(r)
  /\ UNCHANGED llmCalls

\* agent.py:162-165 raises
SecondCallFails(r) ==
  /\ pc[r] = "llm2"
  /\ ModelCall(NoTools)
  /\ Raise(r)

SecondCallStartsAnotherRound(r, text) ==
  /\ pc[r] = "llm2"
  /\ ModelCall(NoTools)
  /\ AppendMessage(r, AssistantMessage(text))
  /\ answer_text' = [answer_text EXCEPT ![r] = text]
  /\ pc' = [pc EXCEPT ![r] = "llm1"]
  /\ UNCHANGED <<MAX_HISTORY_LIMIT, resetRequests,
                 cleared,
                 SESSION_MEMORY, session_id, target_file,
                 history, tool_calls, tc_i, final_sources, lastResponse,
                 gatewayCalls, before, index, ingestVars>>

\* agent.py:162-167
SecondCallAnswers(r, text) ==
  /\ pc[r] = "llm2"
  /\ ModelCall(NoTools)
  /\ AppendMessage(r, AssistantMessage(text))
  /\ answer_text' = [answer_text EXCEPT ![r] = text]
  /\ pc' = [pc EXCEPT ![r] = "window"]
  /\ UNCHANGED <<MAX_HISTORY_LIMIT, resetRequests,
                 cleared,
                 SESSION_MEMORY, session_id, target_file,
                 history, tool_calls, tc_i, final_sources, lastResponse,
                 gatewayCalls, before, index, ingestVars>>

\* agent.py:177-179, the list the sliding window leaves
SlidingWindow(h, limit) ==
  IF Len(h) > limit + 1
  THEN <<h[1]>> \o LastSlice(h, limit)
  ELSE h

\* agent.py:174-184
WriteBack(r) ==
  /\ pc[r] = "window"
  /\ LET h == heap[history[r]]
         trimmed == Len(h) > MAX_HISTORY_LIMIT + 1
     IN IF trimmed
        THEN /\ HasFreeObj
             /\ LET ref == NewObj
                    sm == [SESSION_MEMORY EXCEPT ![session_id[r]] = ref]
                IN Return(r, sm,
                          [heap EXCEPT
                             ![ref] = SlidingWindow(h, MAX_HISTORY_LIMIT)],
                          "done")
        ELSE Return(r, [SESSION_MEMORY EXCEPT ![session_id[r]] = history[r]],
                    heap, "done")
  /\ lastResponse' = [req |-> r, session |-> session_id[r],
                      answer |-> answer_text[r], source |-> final_sources[r]]
  /\ UNCHANGED <<MAX_HISTORY_LIMIT, resetRequests,
                 cleared,
                 gatewayCalls, llmCalls, sessionLog, index,
                 ingestVars>>

clear_keeps_list(s) ==
  /\ LoopIdle
  /\ IF SESSION_MEMORY[s] # NoRef
     THEN /\ sessionLog' = [sessionLog EXCEPT ![s] = <<>>]
          /\ cleared' = [cleared EXCEPT ![s] = TRUE]
     ELSE UNCHANGED <<sessionLog, cleared>>
  /\ UNCHANGED <<MAX_HISTORY_LIMIT, resetRequests,
                 SESSION_MEMORY, heap, pc, session_id,
                 target_file, history, tool_calls, tc_i, final_sources,
                 answer_text, lastResponse, gatewayCalls, llmCalls,
                 before, appended,
                 index, ingestVars>>

\* agent.py:109-113 behind main.py:89-96
clear_session_memory(s) ==
  /\ LoopIdle
  /\ IF SESSION_MEMORY[s] # NoRef
     THEN LET sm == [SESSION_MEMORY EXCEPT ![s] = NoRef]
          IN /\ SESSION_MEMORY' = sm
             /\ heap' = Collect(heap, sm, history)
             /\ sessionLog' = [sessionLog EXCEPT ![s] = <<>>]
             /\ cleared' = [cleared EXCEPT ![s] = TRUE]
     ELSE UNCHANGED <<SESSION_MEMORY, heap, sessionLog, cleared>>
  /\ UNCHANGED <<MAX_HISTORY_LIMIT, resetRequests,
                 pc, session_id, target_file, history,
                 tool_calls, tc_i, final_sources, answer_text, lastResponse,
                 gatewayCalls, llmCalls, before, appended, index,
                 ingestVars>>

\* ------------------------------------------------------------ reset requests
\* a turn on session s is between its first and its last line
TurnInProgress(s) == \E r \in Reqs : InHandler(r) /\ session_id[r] = s

\* a client sends DELETE /session/{s}: the request is with the event loop,
\* which runs its handler when the handler before it has returned
DeleteRequest(s) ==
  /\ ~resetRequests[s].waiting
  /\ resetRequests' =
       [resetRequests EXCEPT
          ![s] = [waiting |-> TRUE,
                  inTurn |-> TurnInProgress(s),
                  response |-> None]]
  /\ UNCHANGED <<MAX_HISTORY_LIMIT, SESSION_MEMORY, heap, pc, session_id,
                 target_file, history, tool_calls, tc_i, final_sources,
                 answer_text, lastResponse, gatewayCalls, llmCalls,
                 sessionLog, before, appended, cleared, index, ingestVars>>

\* main.py:89-96 with agent.py:109-113, the handler of a waiting request
reset_session(s) ==
  /\ resetRequests[s].waiting
  /\ LoopIdle
  /\ resetRequests' = [resetRequests EXCEPT ![s].waiting = FALSE,
                                            ![s].response = "success"]
  /\ IF SESSION_MEMORY[s] # NoRef
     THEN LET sm == [SESSION_MEMORY EXCEPT ![s] = NoRef]
          IN /\ SESSION_MEMORY' = sm
             /\ heap' = Collect(heap, sm, history)
             /\ sessionLog' = [sessionLog EXCEPT ![s] = <<>>]
             /\ cleared' = [cleared EXCEPT ![s] = TRUE]
     ELSE UNCHANGED <<SESSION_MEMORY, heap, sessionLog, cleared>>
  /\ UNCHANGED <<MAX_HISTORY_LIMIT, pc, session_id, target_file, history,
                 tool_calls, tc_i, final_sources, answer_text, lastResponse,
                 gatewayCalls, llmCalls, before, appended, index,
                 ingestVars>>

\* ------------------------------------------------------------ blob storage
\* an uploaded file: what extraction will find in it
Pdf(text) == [pages |-> Max(1, Len(text)), text |-> text]

Pdfs == {Pdf(t) : t \in Texts}

NoBlob == [exists |-> FALSE, pdf |-> Pdf(<<>>), status |-> None, tag |-> None]

\* `status` is metadata['status'], which GET /status reads (main.py:35);
\* `tag` is tags['status'], which list_indexed_files queries (rag.py:115)
Blob(pdf, status, tag) ==
  [exists |-> TRUE, pdf |-> pdf, status |-> status, tag |-> tag]

\* ------------------------------------------------------------ ingestion
RunActive(k) ==
  rpc[k] \in {"extract", "chunk", "embed", "delete_query", "delete",
              "insert", "set_metadata", "set_tags"}

RunEnded(k) == rpc[k] \in {"done", "crashed"}

\* what the index holds for a document: key, ordinal and text of each chunk
EntriesIn(idx, d) ==
  {<<e.id, e.chunk_index, e.content>> : e \in {x \in idx : x.source_document = d}}

NoRunLog == [text |-> <<>>, steps |-> <<>>, entries |-> {}, status |-> None]

\* chonkie's RecursiveChunker (rag.py:61-71): the text is given as its pieces
chunk_to_documents(text) == text

\* main.py:40-68 with rag.py:83-98: the blob is written with status
\* processing, then the pipeline is handed to BackgroundTasks
upload_pdf(k, d, pdf) ==
  /\ rpc[k] = "none"
  /\ \A j \in Runs : j < k => rpc[j] # "none"
  /\ LoopIdle
  /\ blobs' = [blobs EXCEPT ![d] = Blob(pdf, "processing", "processing")]
  /\ rpc' = [rpc EXCEPT ![k] = "extract"]
  /\ filename' = [filename EXCEPT ![k] = d]
  /\ overlapped' =
       [j \in Runs |->
          IF \E i \in Runs : RunActive(i) /\ filename[i] = d
          THEN overlapped[j] \/ j = k \/ (RunActive(j) /\ filename[j] = d)
          ELSE overlapped[j]]
  /\ UNCHANGED <<agentVars, index, markdown_text, page_count, chunks,
                 search_documents, keys_to_delete, runLog>>

\* rag.py:152-156, the extraction service reads the blob behind file_url
Extract(k) ==
  /\ rpc[k] = "extract"
  /\ markdown_text' = [markdown_text EXCEPT ![k] = blobs[filename[k]].pdf.text]
  /\ page_count' = [page_count EXCEPT ![k] = blobs[filename[k]].pdf.pages]
  /\ rpc' = [rpc EXCEPT ![k] = "chunk"]
  /\ runLog' = [runLog EXCEPT ![k].text = blobs[filename[k]].pdf.text]
  /\ UNCHANGED <<agentVars, index, blobs, filename, chunks, search_documents,
                 keys_to_delete, overlapped>>

\* rag.py:158-160
Chunk(k) ==
  /\ rpc[k] = "chunk"
  /\ chunks' = [chunks EXCEPT ![k] = chunk_to_documents(markdown_text[k])]
  /\ markdown_text' = [markdown_text EXCEPT ![k] = <<>>]
  /\ rpc' = [rpc EXCEPT ![k] = "embed"]
  /\ UNCHANGED <<agentVars, index, blobs, filename, page_count,
                 search_documents, keys_to_delete, overlapped, runLog>>

\* the run has done one of its writes
Did(k, step) == runLog' = [runLog EXCEPT ![k].steps = Append(@, step)]

SkipDelete(docs) == IF docs # {} THEN "insert" ELSE "set_metadata"

\* rag.py:176, the index is touched only for a non-empty list
AfterBuild(docs) == IF docs # {} THEN "delete_query" ELSE "set_metadata"

\* rag.py:162-176
EmbedAndBuild(k) ==
  /\ rpc[k] = "embed"
  /\ LET docs == BuildSearchDocuments(filename[k], chunks[k])
     IN /\ search_documents' = [search_documents EXCEPT ![k] = docs]
        /\ rpc' = [rpc EXCEPT ![k] = AfterBuild(docs)]
  /\ chunks' = [chunks EXCEPT ![k] = <<>>]
  /\ UNCHANGED <<agentVars, index, blobs, filename, markdown_text,
                 page_count, keys_to_delete, overlapped, runLog>>

DeleteQueryAll(k) ==
  /\ rpc[k] = "delete_query"
  /\ LET keys == {d.id : d \in index}
     IN /\ keys_to_delete' = [keys_to_delete EXCEPT ![k] = keys]
        /\ rpc' = [rpc EXCEPT ![k] = IF keys # {} THEN "delete" ELSE "insert"]
  /\ IF index # {} THEN UNCHANGED runLog ELSE Did(k, "delete")
  /\ UNCHANGED <<agentVars, index, blobs, filename, markdown_text,
                 page_count, chunks, search_documents, overlapped>>

\* rag.py:126-136, delete_any_existing_documents reads the index
DeleteQuery(k) ==
  /\ rpc[k] = "delete_query"
  /\ LET keys == {d.id : d \in {e \in index :
                                  e.source_document = filename[k]}}
     IN /\ keys_to_delete' = [keys_to_delete EXCEPT ![k] = keys]
        /\ rpc' = [rpc EXCEPT ![k] = IF keys # {} THEN "delete" ELSE "insert"]
  /\ IF \E e \in index : e.source_document = filename[k]
     THEN UNCHANGED runLog
     ELSE Did(k, "delete")
  /\ UNCHANGED <<agentVars, index, blobs, filename, markdown_text,
                 page_count, chunks, search_documents, overlapped>>

\* rag.py:137, the delete batch
DeleteBatch(k) ==
  /\ rpc[k] = "delete"
  /\ index' = {e \in index : e.id \notin keys_to_delete[k]}
  /\ keys_to_delete' = [keys_to_delete EXCEPT ![k] = {}]
  /\ rpc' = [rpc EXCEPT ![k] = "insert"]
  /\ Did(k, "delete")
  /\ UNCHANGED <<agentVars, blobs, filename, markdown_text, page_count,
                 chunks, search_documents, overlapped>>

\* the index keeps one document per key: an upload replaces the document
\* that has the key
Upsert(idx, docs) ==
  {e \in idx : e.id \notin {d.id : d \in docs}} \cup docs

\* rag.py:178
Insert(k) ==
  /\ rpc[k] = "insert"
  /\ index' = Upsert(index, search_documents[k])
  /\ rpc' = [rpc EXCEPT ![k] = "set_metadata"]
  /\ Did(k, "insert")
  /\ UNCHANGED <<agentVars, blobs, filename, markdown_text, page_count,
                 chunks, search_documents, keys_to_delete, overlapped>>

\* rag.py:108 inside rag.py:182
SetMetadata(k) ==
  /\ rpc[k] = "set_metadata"
  /\ blobs' = [blobs EXCEPT ![filename[k]].status = "ready"]
  /\ rpc' = [rpc EXCEPT ![k] = "set_tags"]
  /\ Did(k, "ready")
  /\ UNCHANGED <<agentVars, index, filename, markdown_text, page_count,
                 chunks, search_documents, keys_to_delete, overlapped>>

\* rag.py:109 inside rag.py:182, then rag.py:184
SetTags(k) ==
  /\ rpc[k] = "set_tags"
  /\ blobs' = [blobs EXCEPT ![filename[k]].tag = "ready"]
  /\ rpc' = [rpc EXCEPT ![k] = "done"]
  /\ page_count' = [page_count EXCEPT ![k] = 0]
  /\ runLog' = [runLog EXCEPT
                  ![k].entries = EntriesIn(index, filename[k]),
                  ![k].status = "ready"]
  /\ UNCHANGED <<agentVars, index, filename, markdown_text, chunks,
                 search_documents, keys_to_delete, overlapped>>

\* any of the service calls of rag.py:152-182 raises: nothing in
\* process_and_index_document or around the background task catches it
RunFails(k) ==
  /\ RunActive(k)
  /\ rpc' = [rpc EXCEPT ![k] = "crashed"]
  /\ markdown_text' = [markdown_text EXCEPT ![k] = <<>>]
  /\ page_count' = [page_count EXCEPT ![k] = 0]
  /\ chunks' = [chunks EXCEPT ![k] = <<>>]
  /\ keys_to_delete' = [keys_to_delete EXCEPT ![k] = {}]
  /\ UNCHANGED <<agentVars, index, blobs, filename, search_documents,
                 overlapped, runLog>>

\* ------------------------------------------------------------ agent specification
\* the index a finished ingestion of each document has left
AgentCorpus ==
  BuildSearchDocuments("policy.pdf", <<"c1">>)
    \cup BuildSearchDocuments("handbook.pdf", <<"c2">>)

AgentStart ==
  /\ SESSION_MEMORY = [s \in Sessions |-> NoRef]
  /\ heap = [o \in Objs |-> <<>>]
  /\ pc = [r \in Reqs |-> "new"]
  /\ session_id = [r \in Reqs |-> None]
  /\ target_file = [r \in Reqs |-> None]
  /\ history = [r \in Reqs |-> NoRef]
  /\ tool_calls = [r \in Reqs |-> <<>>]
  /\ tc_i = [r \in Reqs |-> 0]
  /\ final_sources = [r \in Reqs |-> NoSources]
  /\ answer_text = [r \in Reqs |-> None]
  /\ lastResponse = NoResponse
  /\ gatewayCalls = {}
  /\ llmCalls = <<>>
  /\ sessionLog = [s \in Sessions |-> <<>>]
  /\ before = [r \in Reqs |-> <<>>]
  /\ appended = [r \in Reqs |-> <<>>]
  /\ cleared = [s \in Sessions |-> FALSE]
  /\ resetRequests = [s \in Sessions |-> NoRequest]

NoTasks ==
  /\ rpc = [k \in Runs |-> "none"]
  /\ filename = [k \in Runs |-> None]
  /\ markdown_text = [k \in Runs |-> <<>>]
  /\ page_count = [k \in Runs |-> 0]
  /\ chunks = [k \in Runs |-> <<>>]
  /\ search_documents = [k \in Runs |-> {}]
  /\ keys_to_delete = [k \in Runs |-> {}]
  /\ overlapped = [k \in Runs |-> FALSE]
  /\ runLog = [k \in Runs |-> NoRunLog]

\* the service answers questions about documents whose ingestion has finished
InitAgent ==
  /\ MAX_HISTORY_LIMIT \in LimitValues
  /\ AgentStart
  /\ NoTasks
  /\ blobs = [d \in Docs |->
                Blob(Pdf(IF d = "policy.pdf" THEN <<"c1">> ELSE <<"c2">>),
                     "ready", "ready")]
  /\ index = AgentCorpus

NextAgent ==
  \/ \E r \in Reqs, s \in Sessions, q \in Queries, tf \in TargetFiles :
       AskStart(r, s, q, tf)
  \/ \E r \in Reqs : FirstCallFails(r)
  \/ \E r \in Reqs, calls \in ToolCallLists : FirstCallRequestsTools(r, calls)
  \/ \E r \in Reqs, text \in Answers : FirstCallAnswers(r, text)
  \/ \E r \in Reqs : ToolCallSkipped(r)
  \/ \E r \in Reqs : ToolCallSearches(r)
  \/ \E r \in Reqs : SearchFails(r)
  \/ \E r \in Reqs : SecondCallFails(r)
  \/ \E r \in Reqs, text \in Answers : SecondCallAnswers(r, text)
  \/ \E r \in Reqs : WriteBack(r)
  \/ \E s \in Sessions : clear_session_memory(s)

SpecAgent == InitAgent /\ [][NextAgent]_vars

\* ------------------------------------------------------------ one question
\* one question put to an index in which a document has more than one chunk
MergeCorpus ==
  BuildSearchDocuments("policy.pdf", <<"c1", "c3">>)
    \cup BuildSearchDocuments("handbook.pdf", <<"c2">>)

InitMerge ==
  /\ MAX_HISTORY_LIMIT = MaxLimit
  /\ AgentStart
  /\ NoTasks
  /\ blobs = [d \in Docs |->
                Blob(Pdf(IF d = "policy.pdf" THEN <<"c1", "c3">> ELSE <<"c2">>),
                     "ready", "ready")]
  /\ index = MergeCorpus

NextMerge ==
  \/ \E s \in Sessions, q \in Queries, tf \in TargetFiles :
       AskStart(1, s, q, tf)
  \/ FirstCallFails(1)
  \/ \E calls \in ToolCallLists : FirstCallRequestsTools(1, calls)
  \/ \E text \in Answers : FirstCallAnswers(1, text)
  \/ ToolCallSkipped(1)
  \/ ToolCallSearches(1)
  \/ SearchFails(1)
  \/ SecondCallFails(1)
  \/ \E text \in Answers : SecondCallAnswers(1, text)
  \/ WriteBack(1)
  \/ \E s \in Sessions : clear_session_memory(s)

SpecMerge == InitMerge /\ [][NextMerge]_vars

\* ------------------------------------------------------------ one search
\* search_knowledge_base on its own, over an index that holds more chunks
\* than one search returns, some of them with the same text
SearchCorpus ==
  BuildSearchDocuments("policy.pdf", <<"x", "y", "x", "z">>)
    \cup BuildSearchDocuments("handbook.pdf", <<"x", "y">>)

InitSearch ==
  /\ MAX_HISTORY_LIMIT = MaxLimit
  /\ AgentStart
  /\ NoTasks
  /\ blobs = [d \in Docs |->
                Blob(Pdf(IF d = "policy.pdf" THEN <<"x", "y", "x", "z">>
                                             ELSE <<"x", "y">>),
                     "ready", "ready")]
  /\ index = SearchCorpus

\* agent.py:37-68, one call of search_knowledge_base(query, filename_filter)
SearchOnce(query, filename_filter) ==
  /\ gatewayCalls = {}
  /\ \E hits \in SearchResults(filename_filter) :
       gatewayCalls' =
         {[req |-> 0, call |-> 0, query |-> query,
           caller_scope |-> filename_filter, proposed |-> None,
           filename_filter |-> filename_filter,
           hits |-> hits, sources |-> search_knowledge_base(hits)]}
  /\ UNCHANGED <<MAX_HISTORY_LIMIT, resetRequests,
                 SESSION_MEMORY, heap, pc, session_id,
                 target_file, history, tool_calls, tc_i, final_sources,
                 answer_text, lastResponse, llmCalls, sessionLog, before,
                 appended, cleared, index, ingestVars>>

NextSearch ==
  \E query \in Queries, filename_filter \in TargetFiles :
     SearchOnce(query, filename_filter)

SpecSearch == InitSearch /\ [][NextSearch]_vars

\* ------------------------------------------------------------ building the entries
\* the step that builds the index entries, on its own: two runs, each with a
\* filename that upload_to_blob may return (letters, digits, "_", "." and
\* "-", ending in ".pdf") and with up to MaxKeyChunks chunks, so that
\* positions have one and two digits
KeyNames ==
  {"policy.pdf", "handbook.pdf", "a.pdf", "a_1.pdf", "a_10.pdf",
   "a_1_0.pdf", "1.pdf", "1_0.pdf"}

KeyTexts ==
  {[i \in 1..n |-> IF i % 2 = 1 THEN "x" ELSE "y"] : n \in 0..MaxKeyChunks}

InitKeys ==
  /\ MAX_HISTORY_LIMIT = MaxLimit
  /\ AgentStart
  /\ blobs = [d \in Docs |-> NoBlob]
  /\ index = {}
  /\ rpc = [k \in Runs |-> "embed"]
  /\ filename \in [Runs -> KeyNames]
  /\ chunks \in [Runs -> KeyTexts]
  /\ runLog = [k \in Runs |-> [NoRunLog EXCEPT !.text = chunks[k]]]
  /\ markdown_text = [k \in Runs |-> <<>>]
  /\ page_count = [k \in Runs |-> 1]
  /\ search_documents = [k \in Runs |-> {}]
  /\ keys_to_delete = [k \in Runs |-> {}]
  /\ overlapped = [k \in Runs |-> FALSE]

NextKeys == \E k \in Runs : EmbedAndBuild(k)

SpecKeys == InitKeys /\ [][NextKeys]_vars

\* ------------------------------------------------------------ resets among turns
\* questions without target_file, and reset requests that reach the event
\* loop at any moment, also in the middle of a turn
InitReset ==
  /\ MAX_HISTORY_LIMIT = MaxLimit
  /\ AgentStart
  /\ NoTasks
  /\ blobs = [d \in Docs |->
                Blob(Pdf(IF d = "policy.pdf" THEN <<"c1">> ELSE <<"c2">>),
                     "ready", "ready")]
  /\ index = AgentCorpus

NextReset ==
  \/ \E r \in Reqs, s \in Sessions, q \in Queries : AskStart(r, s, q, None)
  \/ \E r \in Reqs : FirstCallFails(r)
  \/ \E r \in Reqs, calls \in ToolCallLists : FirstCallRequestsTools(r, calls)
  \/ \E r \in Reqs, text \in Answers : FirstCallAnswers(r, text)
  \/ \E r \in Reqs : ToolCallSkipped(r)
  \/ \E r \in Reqs : ToolCallSearches(r)
  \/ \E r \in Reqs : SearchFails(r)
  \/ \E r \in Reqs : SecondCallFails(r)
  \/ \E r \in Reqs, text \in Answers : SecondCallAnswers(r, text)
  \/ \E r \in Reqs : WriteBack(r)
  \/ \E s \in Sessions : DeleteRequest(s)
  \/ \E s \in Sessions : reset_session(s)

SpecReset == InitReset /\ [][NextReset]_vars

\* ------------------------------------------------------------ ingestion specification
InitIngest ==
  /\ MAX_HISTORY_LIMIT = MaxLimit
  /\ AgentStart
  /\ NoTasks
  /\ blobs = [d \in Docs |-> NoBlob]
  /\ index = {}

NextIngest ==
  \/ \E k \in Runs, d \in Docs, pdf \in Pdfs : upload_pdf(k, d, pdf)
  \/ \E k \in Runs : Extract(k)
  \/ \E k \in Runs : Chunk(k)
  \/ \E k \in Runs : EmbedAndBuild(k)
  \/ \E k \in Runs : DeleteQuery(k)
  \/ \E k \in Runs : DeleteBatch(k)
  \/ \E k \in Runs : Insert(k)
  \/ \E k \in Runs : SetMetadata(k)
  \/ \E k \in Runs : SetTags(k)
  \/ \E k \in Runs : RunFails(k)

SpecIngest == InitIngest /\ [][NextIngest]_vars

\* ------------------------------------------------------------ the whole service
\* Questions and ingestion side by side, from an empty service.  The
\* properties below are checked under SpecAgent, SpecMerge and SpecIngest,
\* each of which keeps the other half still.
Init == InitIngest

Next == NextAgent \/ NextIngest

Spec == Init /\ [][Next]_vars

\* ------------------------------------------------------------ properties: agent
Stored(s) == SESSION_MEMORY[s] # NoRef

Transcript(s) == heap[SESSION_MEMORY[s]]

NotSystem(m) == m.role # "system"

Untagged(log) == [i \in 1..Len(log) |-> log[i].msg]

IsSuffix(a, b) ==
  /\ Len(a) <= Len(b)
  /\ \A i \in 1..Len(a) : a[i] = b[Len(b) - Len(a) + i]

IsInfix(a, b) ==
  \E off \in 0..(Len(b) - Len(a)) : \A i \in 1..Len(a) : a[i] = b[off + i]

\* the n last entries of q, for n <= Len(q)
Newest(q, n) == [i \in 1..n |-> q[Len(q) - n + i]]

EntriesOf(r, log) == SelectSeq(log, LAMBDA e : e.req = r)

DocsInIndex == {e.source_document : e \in index}

(* C1: every call the Retrieval Gateway receives in a turn carries as its
   scope exactly the target_file of that turn's caller (the empty scope
   included), whatever filename the model wrote into the tool call. *)
C1_GatewayScopeIsCallerScope ==
  \A c \in gatewayCalls : c.filename_filter = c.caller_scope

C1_Witness ==
  \E c \in gatewayCalls :
     /\ c.caller_scope = "policy.pdf"
     /\ c.proposed = "handbook.pdf"
     /\ c.filename_filter = "policy.pdf"

(* C2: every stored transcript starts with the system instruction and has no
   system entry after the first. *)
C2_SystemFirstAndOnlyFirst ==
  \A s \in Sessions :
     Stored(s) =>
       /\ Transcript(s)[1] = SystemMessage
       /\ \A i \in 2..Len(Transcript(s)) : NotSystem(Transcript(s)[i])

\* the part of C2 the code keeps for every limit
SystemAlwaysFirst ==
  \A s \in Sessions : Stored(s) => Transcript(s)[1] = SystemMessage

(* C3: when a turn has completed on a session to which more than N
   non-system entries were appended, the transcript it stored is the system
   instruction followed by the N most recent entries of the session's full
   history, in order: N+1 entries. *)
C3_WindowIsSystemPlusNewest ==
  LET s == lastResponse.session
      n == MAX_HISTORY_LIMIT
  IN (lastResponse.req # 0 /\ Stored(s) /\ Len(sessionLog[s]) > n) =>
       /\ Len(Transcript(s)) = n + 1
       /\ Transcript(s) =
            <<SystemMessage>> \o Newest(Untagged(sessionLog[s]), n)

(* C4: a turn that fails (a language-model call or the search raises) leaves
   the session's stored transcript as it was when the turn started. *)
C4_FailedTurnLeavesTranscript ==
  [][\A r \in Reqs :
       (InHandler(r) /\ pc'[r] = "failed") =>
          LET s == session_id[r]
          IN (IF SESSION_MEMORY'[s] = NoRef
              THEN <<>>
              ELSE heap'[SESSION_MEMORY'[s]]) = before[r]]_vars

(* C8 as claimed: after two turns on one session have both completed, the
   stored transcript contains the entries of each of the two turns as a
   contiguous run, in order. *)
C8_BothTurnsKept ==
  \A s \in Sessions :
     (/\ Stored(s)
      /\ \A r \in Reqs : pc[r] \in {"done", "new"}
      /\ \E r1, r2 \in Reqs :
           /\ r1 # r2
           /\ pc[r1] = "done" /\ pc[r2] = "done"
           /\ EntriesOf(r1, sessionLog[s]) # <<>>
           /\ EntriesOf(r2, sessionLog[s]) # <<>>)
     => \A r \in Reqs :
           IsInfix(Untagged(EntriesOf(r, sessionLog[s])), Transcript(s))

(* C8 as amended: turns are executed one at a time; the entries of each turn
   are contiguous and in request order in the session's history; and the
   stored transcript holds, after its system entries, the most recent
   entries of that history, so that entries leave it only at the old end
   (the retention window), never by a stale write-back. *)
C8_TurnsOneAtATime ==
  /\ \A r1, r2 \in Reqs : (InHandler(r1) /\ InHandler(r2)) => r1 = r2
  /\ \A s \in Sessions :
       /\ \A i, j \in 1..Len(sessionLog[s]) :
            i < j => sessionLog[s][i].req <= sessionLog[s][j].req
       /\ Stored(s) =>
            IsSuffix(SelectSeq(Transcript(s), NotSystem),
                     Untagged(sessionLog[s]))

C8_Witness ==
  \E s \in Sessions :
     /\ Stored(s)
     /\ pc[1] = "done" /\ pc[2] = "done"
     /\ EntriesOf(1, sessionLog[s]) # <<>>
     /\ EntriesOf(2, sessionLog[s]) # <<>>
     /\ Len(Transcript(s)) = MAX_HISTORY_LIMIT + 1
     /\ MAX_HISTORY_LIMIT = 2

(* C10: a search whose scope is a document D of the index returns only
   chunks of D, and the citation map built from it has no key but D. *)
C10_ScopedSearchStaysInDocument ==
  \A c \in gatewayCalls :
     c.filename_filter \in DocsInIndex =>
       /\ \A i \in 1..Len(c.hits) :
            c.hits[i].source_document = c.filename_filter
       /\ DOMAIN c.sources \subseteq {c.filename_filter}

C10_Witness ==
  \E c \in gatewayCalls :
     /\ c.filename_filter = "policy.pdf"
     /\ DOMAIN c.sources = {"policy.pdf"}

\* the other half of C10: without a scope the hits may span the documents
UnscopedSearchSpansDocuments ==
  \E c \in gatewayCalls :
     /\ ~HasFilter(c.filename_filter)
     /\ DOMAIN c.sources = Docs

\* ------------------------------------------------------------ properties: ingestion
IndexOf(d) == {e \in index : e.source_document = d}

RunsOf(d) == {k \in Runs : rpc[k] # "none" /\ filename[k] = d}

\* the task of the latest upload of d
IsLatest(k) == \A j \in RunsOf(filename[k]) : j <= k

\* between the first and the last index call of rag.py:177-178
InSync(k) == rpc[k] \in {"delete", "insert"}

(* C5: after two ingest runs of one document, the second started after the
   first had ended, the index holds for the document exactly the chunks the
   second run built (none, if it built none). *)
C5_SecondRunReplacesFirst ==
  \A k1, k2 \in Runs :
     (/\ k1 < k2
      /\ rpc[k1] = "done" /\ rpc[k2] = "done"
      /\ filename[k1] = filename[k2]
      /\ ~overlapped[k1] /\ ~overlapped[k2]
      /\ IsLatest(k2))
     => IndexOf(filename[k2]) = search_documents[k2]

(* C6: when the ingest run of the latest upload of a document has ended,
   by success or by a failing step, the document's status is ready or
   failed, not processing. *)
C6_EndedRunIsReadyOrFailed ==
  \A k \in Runs :
     (RunEnded(k) /\ IsLatest(k)) =>
        blobs[filename[k]].status \in {"ready", "failed"}

\* C7, first half: two runs of one document are never both inside their
\* delete-and-insert sequence
SyncNeverInterleaves ==
  \A k1, k2 \in Runs :
     (InSync(k1) /\ InSync(k2) /\ filename[k1] = filename[k2]) => k1 = k2

(* C7: when ingest runs of one document that ran concurrently have all
   finished (each having built a non-empty chunk set), the index holds for
   the document exactly the chunk set of one of the runs. *)
C7_ConcurrentRunsLeaveOneRun ==
  \A d \in Docs :
     (/\ Cardinality(RunsOf(d)) >= 2
      /\ \A k \in RunsOf(d) :
           rpc[k] = "done" /\ overlapped[k] /\ search_documents[k] # {})
     => \E k \in RunsOf(d) : IndexOf(d) = search_documents[k]

(* C9: the status of a document is processing while the ingest run of its
   latest upload is still extracting, chunking, embedding or writing the
   index, and it is ready only when that run has come through these steps. *)
C9_ReadyOnlyAfterOwnRun ==
  \A k \in Runs :
     (rpc[k] # "none" /\ IsLatest(k)) =>
        LET status == blobs[filename[k]].status
        IN /\ rpc[k] \in {"extract", "chunk", "embed", "delete_query",
                          "delete", "insert", "set_metadata"}
                => status = "processing"
           /\ status = "ready" => rpc[k] \in {"set_tags", "done", "crashed"}

\* C9, the transitions: the status changes only from processing to ready,
\* or to processing by an upload
StatusTransitions ==
  [][\A d \in Docs :
       blobs'[d].status # blobs[d].status =>
          \/ blobs[d].status = "processing" /\ blobs'[d].status = "ready"
          \/ /\ blobs'[d].status = "processing"
             /\ \E k \in Runs : rpc[k] = "none" /\ rpc'[k] = "extract"
                                /\ filename'[k] = d]_vars

(* C11: when a document has been ingested twice with the same extracted
   text, the second run started after the first had ended, the index holds
   for the document after the second run the same (key, ordinal, chunk text)
   entries as after the first run, and the status is the same. *)
C11_SameTextSameEntries ==
  \A k1, k2 \in Runs :
     (/\ k1 < k2
      /\ rpc[k1] = "done" /\ rpc[k2] = "done"
      /\ filename[k1] = filename[k2]
      /\ ~overlapped[k1] /\ ~overlapped[k2]
      /\ runLog[k1].text = runLog[k2].text)
     => /\ runLog[k2].entries = runLog[k1].entries
        /\ runLog[k2].status = runLog[k1].status
        /\ EntriesIn(index, filename[k2]) = runLog[k1].entries
        /\ blobs[filename[k2]].status = runLog[k1].status

C11_Witness ==
  /\ rpc[1] = "done" /\ rpc[2] = "done"
  /\ filename[1] = filename[2]
  /\ ~overlapped[1] /\ ~overlapped[2]
  /\ runLog[1].text = <<"x", "y">>
  /\ runLog[2].text = <<"x", "y">>
  /\ Cardinality(runLog[2].entries) = 2

\* ------------------------------------------------------------ properties: reset
\* request r is the first turn that completed on session s since the last
\* reset removed the session's transcript, and no turn has completed since
FirstCompletedAfterReset(r, s) ==
  /\ cleared[s]
  /\ Stored(s)
  /\ lastResponse.req = r
  /\ lastResponse.session = s
  /\ \A i \in 1..Len(sessionLog[s]) :
       sessionLog[s][i].req = r \/ pc[sessionLog[s][i].req] = "failed"

UserTurns(h) == SelectSeq(h, LAMBDA m : m.role = "user")

(* C12 as claimed: the transcript stored by the next completed turn after a
   reset is the system instruction, then the one new user message, then the
   other entries that turn generated, and nothing else. *)
C12_OneUserTurnAfterReset ==
  \A r \in Reqs, s \in Sessions :
     FirstCompletedAfterReset(r, s) =>
       /\ Transcript(s)[1] = SystemMessage
       /\ Len(UserTurns(Transcript(s))) = 1
       /\ Transcript(s) =
            <<SystemMessage>> \o Untagged(EntriesOf(r, sessionLog[s]))

(* C12 as amended: the transcript stored by the next completed turn after a
   reset starts with the system instruction and holds, after its system
   entries, only entries appended since the reset: the most recent of them,
   in order, and all of them when the retention limit N >= 1 is not smaller
   than their number.  Nothing from before the reset remains. *)
C12_OnlyEntriesSinceReset ==
  \A r \in Reqs, s \in Sessions :
     FirstCompletedAfterReset(r, s) =>
       /\ Transcript(s)[1] = SystemMessage
       /\ IsSuffix(SelectSeq(Transcript(s), NotSystem),
                   Untagged(sessionLog[s]))
       /\ (MAX_HISTORY_LIMIT >= 1
             /\ Len(sessionLog[s]) <= MAX_HISTORY_LIMIT)
          => Transcript(s) = <<SystemMessage>> \o Untagged(sessionLog[s])

C12_Witness ==
  /\ FirstCompletedAfterReset(2, "s1")
  /\ pc[1] = "done"
  /\ MAX_HISTORY_LIMIT = 2
  /\ Transcript("s1") =
       <<SystemMessage, UserMessage("q1"), AssistantMessage("a1")>>

\* ------------------------------------------------------------ properties: one turn
\* the list run_agent works on, as it was when the turn started
StartOfTurn(r) == IF before[r] = <<>> THEN <<SystemMessage>> ELSE before[r]

(* C13: a turn whose first response has no tool call makes no Retrieval
   Gateway call and no second model call; when it reaches the retention
   step it has appended exactly the user turn and one assistant turn with
   the model's content, and it returns that content with an empty citation
   map. *)
C13_DirectAnswer ==
  /\ \A r \in Reqs :
       (pc[r] = "window" /\ tool_calls[r] = <<>>) =>
          /\ gatewayCalls = {}
          /\ llmCalls = <<tools>>
          /\ final_sources[r] = NoSources
          /\ answer_text[r] \in Answers
          /\ Len(appended[r]) = 2
          /\ appended[r][1].role = "user"
          /\ appended[r][2] = AssistantMessage(answer_text[r])
          /\ heap[history[r]] = StartOfTurn(r) \o appended[r]
  /\ (lastResponse.req # 0 /\ Len(llmCalls) = 1) =>
          /\ gatewayCalls = {}
          /\ lastResponse.source = NoSources
          /\ lastResponse.answer \in Answers
          /\ LET log == sessionLog[lastResponse.session]
             IN log # <<>> =>
                  log[Len(log)].msg = AssistantMessage(lastResponse.answer)

C13_Witness ==
  /\ lastResponse.req = 2
  /\ llmCalls = <<tools>>
  /\ lastResponse.answer = "a1"
  /\ lastResponse.source = NoSources
  /\ Len(EntriesOf(2, sessionLog[lastResponse.session])) = 2

\* the tool entry at position i of h answers a call requested by an
\* assistant entry before it in h
AnswersEarlierRequest(h, i) ==
  \E j \in 1..(i - 1) :
     /\ h[j].role = "assistant"
     /\ \E c \in 1..Len(h[j].tool_calls) :
          h[j].tool_calls[c].id = h[i].tool_call_id

(* C14: in every stored transcript, after any sequence of turns and
   retention trims, every tool entry carries the identifier of a call that
   an assistant entry earlier in the same transcript requested. *)
C14_ToolTurnsHaveTheirRequest ==
  \A s \in Sessions :
     Stored(s) =>
       \A i \in 1..Len(Transcript(s)) :
          Transcript(s)[i].role = "tool" =>
             AnswersEarlierRequest(Transcript(s), i)

\* ------------------------------------------------------------ properties: listing
\* main.py:24-38, GET /status reads the blob's metadata
check_file_status(d) ==
  IF blobs[d].exists THEN blobs[d].status ELSE "not_found"

\* rag.py:111-117 behind main.py:70-74, GET /files queries the blob tags
list_indexed_files == {d \in Docs : blobs[d].exists /\ blobs[d].tag = "ready"}

(* C15: at every moment every document that GET /files lists is one for
   which GET /status reports ready; a document whose status is processing
   or failed, one being ingested again after a second upload included, is
   not listed. *)
C15_ListedOnlyWhileReady ==
  \A d \in list_indexed_files : check_file_status(d) = "ready"

\* ------------------------------------------------------------ properties: tool turns
\* one tool entry per requested call, in call order
ToolTurnsFor(calls) == [i \in 1..Len(calls) |-> ToolMessage(calls[i].id)]

(* C16: when the first response requests tool calls, whatever their list,
   the turn has appended, by the time the second model call is issued, the
   assistant request and then exactly one tool entry for each requested
   call, in call order and with that call's identifier; no requested call is
   without its tool entry. *)
C16_OneToolTurnPerCall ==
  \A r \in Reqs :
     pc[r] = "llm2" =>
       /\ llmCalls = <<tools>>
       /\ Len(appended[r]) = 2 + Len(tool_calls[r])
       /\ appended[r][1].role = "user"
       /\ appended[r][2] = AssistantToolRequest(tool_calls[r])
       /\ SubSeq(appended[r], 3, Len(appended[r]))
            = ToolTurnsFor(tool_calls[r])

\* C16 for the calls of the search capability alone
SearchCallsGetToolTurns ==
  \A r \in Reqs :
     (/\ pc[r] = "llm2"
      /\ \A i \in 1..Len(tool_calls[r]) :
           tool_calls[r][i].name = "search_knowledge_base")
     => /\ appended[r][2] = AssistantToolRequest(tool_calls[r])
        /\ SubSeq(appended[r], 3, Len(appended[r]))
             = ToolTurnsFor(tool_calls[r])

\* ------------------------------------------------------------ properties: model calls
\* how far run_agent has come
Stage(position) ==
  CASE position = "new" -> 0
    [] position = "llm1" -> 1
    [] position = "tools" -> 2
    [] position = "llm2" -> 3
    [] position = "window" -> 4
    [] OTHER -> 5

\* the model calls a turn has made when it is at a given position
CallsMadeAt(r) ==
  CASE pc[r] = "llm1" -> <<>>
    [] pc[r] \in {"tools", "llm2"} -> <<tools>>
    [] pc[r] = "window" ->
         IF tool_calls[r] = <<>> THEN <<tools>> ELSE <<tools, NoTools>>
    [] OTHER -> llmCalls

LastContent(h) == h[Len(h)].content

TwoCallsAtMost ==
  /\ Len(llmCalls) <= 2
  /\ Len(llmCalls) >= 1 => llmCalls[1] = tools /\ Len(tools) = 1
  /\ Len(llmCalls) = 2 => llmCalls[2] = NoTools
  /\ \A r \in Reqs :
       InHandler(r) =>
         /\ llmCalls = CallsMadeAt(r)
         /\ pc[r] = "llm2" => tool_calls[r] # <<>>
         /\ pc[r] = "window" => answer_text[r] = LastContent(appended[r])
  /\ (lastResponse.req # 0 /\ sessionLog[lastResponse.session] # <<>>) =>
       lastResponse.answer
         = LastContent(Untagged(sessionLog[lastResponse.session]))

\* every step of a turn moves it forward: to a later stage, or to the next
\* requested call of the tool loop
TurnAdvances ==
  \A r \in Reqs :
     (pc'[r] # pc[r] \/ tc_i'[r] # tc_i[r]) =>
        \/ Stage(pc'[r]) > Stage(pc[r])
        \/ /\ pc[r] = "tools" /\ pc'[r] = "tools"
           /\ tc_i'[r] = tc_i[r] + 1
           /\ tc_i'[r] <= Len(tool_calls[r])

(* C17: a turn makes at most two language-model calls: the first offers the
   single search capability; a second is made only if the first response
   requested tool calls, offers no capability, and its content is the
   answer; every step moves the turn forward, so no further retrieval round
   or model call follows and the turn ends. *)
C17_AtMostTwoModelCalls == []TwoCallsAtMost /\ [][TurnAdvances]_vars

C17_Witness ==
  /\ lastResponse.req = 1
  /\ llmCalls = <<tools, NoTools>>
  /\ lastResponse.answer = "a1"
  /\ Cardinality(gatewayCalls) = 2

\* ------------------------------------------------------------ properties: order of a run
IsPrefix(a, b) ==
  /\ Len(a) <= Len(b)
  /\ \A i \in 1..Len(a) : a[i] = b[i]

\* the writes of a run that has chunks to index come in the order
\* delete, insert, ready
WritesInOrder ==
  \A k \in Runs :
     search_documents[k] # {} =>
        IsPrefix(runLog[k].steps, <<"delete", "insert", "ready">>)

\* when a run that no other run of the document overlaps inserts, the index
\* holds nothing of the document, and after the insert it holds the run's
\* chunks; the status is written by a run that has chunks only after its
\* insert
InsertAfterDelete ==
  \A k \in Runs :
     /\ (rpc[k] = "insert" /\ rpc'[k] # rpc[k] /\ rpc'[k] # "crashed") =>
           /\ ~overlapped[k] => IndexOf(filename[k]) = {}
           /\ search_documents[k] \subseteq index'
     /\ (/\ rpc[k] = "set_metadata" /\ rpc'[k] = "set_tags"
         /\ search_documents[k] # {}) =>
           /\ runLog[k].steps = <<"delete", "insert">>
           /\ blobs'[filename[k]].status = "ready"

(* C18: within one ingest run that has chunks to index the writes occur in
   the order delete old chunks, insert new chunks, set status ready: when
   the run inserts, every chunk indexed for the document before has been
   deleted, and the status is set to ready only after the insert. *)
C18_DeleteInsertReady == []WritesInOrder /\ [][InsertAfterDelete]_vars

C18_Witness ==
  /\ rpc[1] = "done" /\ rpc[2] = "done"
  /\ filename[1] = filename[2]
  /\ ~overlapped[2]
  /\ runLog[1].text = <<"x", "y">>
  /\ runLog[2].text = <<"y">>
  /\ runLog[2].steps = <<"delete", "insert", "ready">>
  /\ Cardinality(IndexOf(filename[2])) = 1

\* ------------------------------------------------------------ properties: empty input
\* the run has extracted, and found no text or no chunk in it
FoundNothing(k) ==
  /\ rpc[k] \notin {"none", "extract"}
  /\ runLog[k].text = <<>>

(* C19: an ingest run whose extraction yields no text, or whose chunking
   yields no chunks, ends as a failure: it does not set the document's
   status to ready and does not write to the index. *)
C19_EmptyRunIsNotReady ==
  \A k \in Runs :
     (FoundNothing(k) /\ ~overlapped[k]) =>
        /\ blobs[filename[k]].status # "ready"
        /\ runLog[k].steps = <<>>

\* C19, the index half: a run without chunks writes nothing to the index
EmptyRunLeavesIndex ==
  \A k \in Runs :
     FoundNothing(k) =>
        /\ "delete" \notin {runLog[k].steps[i] : i \in 1..Len(runLog[k].steps)}
        /\ "insert" \notin {runLog[k].steps[i] : i \in 1..Len(runLog[k].steps)}

\* ------------------------------------------------------------ properties: citations
Elements(q) == {q[i] : i \in 1..Len(q)}

\* the returned citation map has the hit under its document
Cited(source, hit) ==
  /\ hit.source_document \in DOMAIN source
  /\ hit.content \in Elements(source[hit.source_document].context)

(* C20: the citation map a turn returns holds every hit of every retrieval
   call of the turn, under the hit's document, also when two calls of the
   turn return hits of the same document. *)
C20_CitationsMergeAllCalls ==
  lastResponse.req # 0 =>
     \A c \in gatewayCalls :
        \A hit \in Elements(c.hits) : Cited(lastResponse.source, hit)

\* C20 for the documents alone: every document that a call of the turn hit
\* is a key of the returned map
EveryHitDocumentIsCited ==
  lastResponse.req # 0 =>
     \A c \in gatewayCalls :
        \A hit \in Elements(c.hits) :
           hit.source_document \in DOMAIN lastResponse.source

\* ------------------------------------------------------------ properties: other documents
OwnedBy(idx, d) == {e \in idx : e.source_document = d}

\* a step of the run of one document leaves the index entries and the blob
\* of every other document as they were
TouchesOnlyOwn ==
  \A k \in Runs :
     rpc'[k] # rpc[k] =>
        \A d \in Docs \ {filename'[k]} :
           /\ OwnedBy(index', d) = OwnedBy(index, d)
           /\ blobs'[d] = blobs[d]

\* when the runs of two different documents have both returned, however
\* their steps interleaved, each document has what its run alone gives: the
\* chunks the run built, and status ready
SameAsOneAfterTheOther ==
  \A k1, k2 \in Runs :
     (/\ k1 # k2
      /\ rpc[k1] = "done" /\ rpc[k2] = "done"
      /\ filename[k1] # filename[k2])
     => \A k \in {k1, k2} :
           /\ IndexOf(filename[k]) = search_documents[k]
           /\ blobs[filename[k]].status = "ready"
           /\ blobs[filename[k]].tag = "ready"

(* C21: an ingest run of document D never deletes, inserts or overwrites an
   index entry of another document and never changes another document's
   blob, so runs of different documents, interleaved in any order, leave
   the index and the statuses that running them one after the other
   leaves. *)
C21_RunTouchesOnlyItsDocument ==
  []SameAsOneAfterTheOther /\ [][TouchesOnlyOwn]_vars

C21_Witness ==
  /\ filename[1] = "policy.pdf" /\ filename[2] = "handbook.pdf"
  /\ rpc[1] = "insert" /\ rpc[2] = "set_metadata"
  /\ runLog[1].steps = <<"delete">>
  /\ Cardinality(IndexOf("handbook.pdf")) = 2
  /\ Cardinality(search_documents[1]) = 2

\* ------------------------------------------------------------ properties: grouping
\* the texts of the hits of document d, in the rank order of the hits
TextsOf(hits, d) ==
  LET own == SelectSeq(hits, LAMBDA h : h.source_document = d)
  IN [i \in 1..Len(own) |-> own[i].content]

RECURSIVE TotalTexts(_, _)
TotalTexts(sources, keys) ==
  IF keys = {} THEN 0
  ELSE LET d == CHOOSE x \in keys : TRUE
       IN Len(sources[d].context) + TotalTexts(sources, keys \ {d})

(* C22: the map search returns groups the hits by owning document: its keys
   are exactly the documents that have a hit, each with the non-empty list
   of the texts of its hits in rank order (so every hit is under its
   document and under no other), and the map holds as many texts as there
   are hits, at most the limit. *)
C22_HitsGroupedByDocument ==
  \A c \in gatewayCalls :
     /\ DOMAIN c.sources = {h.source_document : h \in Elements(c.hits)}
     /\ \A d \in DOMAIN c.sources :
          /\ c.sources[d].context # <<>>
          /\ c.sources[d].context = TextsOf(c.hits, d)
          /\ c.sources[d].url = FileUrl(d)
     /\ TotalTexts(c.sources, DOMAIN c.sources) = Len(c.hits)
     /\ TotalTexts(c.sources, DOMAIN c.sources) <= SearchCount

C22_Witness ==
  \E c \in gatewayCalls :
     /\ Len(c.hits) = SearchCount
     /\ DOMAIN c.sources = Docs
     /\ c.sources["policy.pdf"].context = <<"z", "x", "x">>
     /\ c.sources["handbook.pdf"].context = <<"y", "x">>
     /\ c.hits[1].source_document = "handbook.pdf"
     /\ c.hits[2].source_document = "policy.pdf"

\* ------------------------------------------------------------ properties: keys
Built(k) ==
  rpc[k] \in {"delete_query", "delete", "insert", "set_metadata", "set_tags",
              "done"}

\* the entries a run built carry the ordinals 1..n in chunk order, and the
\* key of each is made from the filename and the position
OrdinalsInChunkOrder(k) ==
  LET text == runLog[k].text
      docs == search_documents[k]
  IN /\ Cardinality(docs) = Len(text)
     /\ {d.chunk_index : d \in docs} = 1..Len(text)
     /\ \A d \in docs :
          /\ d.content = text[d.chunk_index]
          /\ d.source_document = filename[k]
          /\ d.id = DocumentKey(filename[k], d.chunk_index - 1)

\* equal keys only for the same filename and the same position
KeysApart(k1, k2) ==
  \A d1 \in search_documents[k1], d2 \in search_documents[k2] :
     d1.id = d2.id <=>
        /\ filename[k1] = filename[k2]
        /\ d1.chunk_index = d2.chunk_index

(* C23: the entries an ingest run builds from n chunks carry the ordinals
   1..n in chunk order; the key of an entry is made from the document's
   filename and the position alone, and two keys are equal only for the
   same filename and the same position: a second run of a document writes
   to the same keys, and two documents never share a key. *)
C23_OrdinalsAndKeys ==
  /\ \A k \in Runs : Built(k) => OrdinalsInChunkOrder(k)
  /\ \A k1, k2 \in Runs : (Built(k1) /\ Built(k2)) => KeysApart(k1, k2)

C23_Witness ==
  /\ Built(1) /\ Built(2)
  /\ filename[1] = "a_1.pdf" /\ filename[2] = "a_1_0.pdf"
  /\ Cardinality(search_documents[1]) = MaxKeyChunks
  /\ Cardinality(search_documents[2]) = MaxKeyChunks

\* C23, the second run: two runs of one filename built the same keys for
\* the positions both have
RerunWritesSameKeys ==
  /\ Built(1) /\ Built(2)
  /\ filename[1] = filename[2]
  /\ Cardinality(search_documents[1]) = 2
  /\ Cardinality(search_documents[2]) = 1
  /\ {d.id : d \in search_documents[2]} \subseteq
       {d.id : d \in search_documents[1]}

\* ------------------------------------------------------------ properties: reset during a turn
\* a reset of session s was requested while a turn on s was in progress, and
\* its handler has run
ResetCameDuringTurn(s) ==
  /\ resetRequests[s].inTurn
  /\ ~resetRequests[s].waiting

(* C24: when a reset of a session is requested while a turn on that session
   is in progress, the write-back of the turn does not bring the history
   from before the reset back: once the reset has run, the session is absent
   until a turn starts on it, and the transcript such a turn finds and
   stores holds, after the system instruction, only entries appended since
   the reset. *)
C24_WriteBackDoesNotUndoReset ==
  \A s \in Sessions :
     ResetCameDuringTurn(s) =>
        /\ sessionLog[s] = <<>> => ~Stored(s)
        /\ Stored(s) =>
             /\ Transcript(s)[1] = SystemMessage
             /\ IsSuffix(SelectSeq(Transcript(s), NotSystem),
                         Untagged(sessionLog[s]))

C24_Witness ==
  /\ ResetCameDuringTurn("s1")
  /\ cleared["s1"]
  /\ Stored("s1")
  /\ pc[1] = "done" /\ pc[2] = "done"
  /\ lastResponse.req = 2 /\ lastResponse.session = "s1"
  /\ EntriesOf(1, sessionLog["s1"]) = <<>>
  /\ Transcript("s1") =
       <<SystemMessage, UserMessage("q1"), AssistantMessage("a1")>>

\* ------------------------------------------------------------ properties: isolation
\* what the service holds for session s
StoredTranscript(s) == IF Stored(s) THEN <<Transcript(s)>> ELSE <<>>

\* a step of a turn on session s
TurnStep(s) ==
  \E r \in Reqs : /\ pc'[r] # pc[r]
                  /\ s \in {session_id[r], session_id'[r]}

\* the handler of a reset of session s runs
ClearStep(s) == resetRequests[s].waiting /\ ~resetRequests'[s].waiting

OthersUntouched ==
  \A a, b \in Sessions :
     (a # b /\ (TurnStep(a) \/ ClearStep(a))) =>
        StoredTranscript(b)' = StoredTranscript(b)

ClearOfAbsentIsNoOp ==
  \A s \in Sessions :
     (ClearStep(s) /\ ~Stored(s)) =>
        /\ resetRequests'[s].response = "success"
        /\ SESSION_MEMORY' = SESSION_MEMORY
        /\ heap' = heap
        /\ pc' = pc

(* C25: sessions are isolated.  A step of a turn on one session key, or a
   clear of it, leaves what is stored for every other session key as it
   was; and a clear of a key that has no session answers with success,
   changes no transcript and creates no session. *)
C25_SessionsIsolated ==
  [][OthersUntouched /\ ClearOfAbsentIsNoOp]_vars

\* a clear of s1 found no session; then s1 got a finished turn, a turn with
\* a search ran on s2, and s2 was cleared: s1 holds its turn as it was
C25_Witness ==
  /\ Stored("s1") /\ ~Stored("s2")
  /\ Transcript("s1") =
       <<SystemMessage, UserMessage("q1"), AssistantMessage("a1")>>
  /\ resetRequests["s1"].response = "success" /\ ~cleared["s1"]
  /\ resetRequests["s2"].response = "success" /\ cleared["s2"]
  /\ lastResponse.req = 2 /\ lastResponse.session = "s2"
  /\ lastResponse.source # NoSources

====
